---- MODULE Spec2Model ----
(***************************************************************************)
(* Model of the kernel-time ablation pipeline of src/ablation/run_kernel.py *)
(* (log discovery -> measurement extraction -> aggregation -> identity     *)
(* normalisation -> report assembly).                                      *)
(*                                                                         *)
(* Conventions of the model                                                *)
(*  - a Python str that the code takes apart (file names, time tokens,     *)
(*    base names) is a sequence of one-character strings;                  *)
(*  - a regular-expression match object is a sequence: <<>> when the       *)
(*    pattern does not match (None), otherwise the tuple of its groups;    *)
(*  - a float number of milliseconds is an integer number of ticks of      *)
(*    1/10000 ms (every time token of the model has at most four           *)
(*    fractional digits), so a sum of floats is a sum of integers;         *)
(*  - a dict is a function whose DOMAIN is the set of its keys.            *)
(*                                                                         *)
(* SpecAnalyze is analyze_configuration over one configuration (with       *)
(* parse_triton_sanitizer stepped line by line); Spec is main/run_analysis *)
(* with export_to_csv, where each analyze_configuration call returns one   *)
(* of the values SpecAnalyze can return.                                   *)
(* SpecFormat, SpecLocate and SpecRegistry are format_test_name,           *)
(* find_log_files and build_registry (src/utils/test_id_registry.py) called *)
(* on their own over bounded sets of arguments.                            *)
(* SpecWrapper is main of src/test_asan_wrapper.py running beside the child *)
(* process it starts, the two joined by the pipes of the child's stdout    *)
(* and stderr.                                                             *)
(***************************************************************************)
EXTENDS Integers, Sequences, FiniteSets, TLC

\* ------------------------------------------------------------ bounds
\* lines read from log files during one analyze_configuration call
MaxLines == 3
\* files in the list find_log_files returns
MaxFiles == 2

VARIABLES
    \* ---- analyze_configuration / parse_triton_sanitizer (SpecAnalyze)
    log_files,      \* list returned by find_log_files
    file_pos,       \* position of the for loop of analyze_configuration in log_files
    file_number,    \* loop local: int(match.group(1)), -1 while unbound
    base_name,      \* loop local: match.group(2)
    lines,          \* the lines of the file being parsed that were read so far
    lines_read,     \* number of lines read since the call started
    test_name,      \* parse_triton_sanitizer local (<<>> is None)
    test_number,    \* parse_triton_sanitizer local (<<>> is None)
    results,        \* parse_triton_sanitizer local / its return value
    parse_exception, \* the except clause the latest parse_triton_sanitizer call took ("" if none)
    file_totals,    \* analyze_configuration local
    returned,       \* value returned by analyze_configuration
    \* ---- main / run_analysis / export_to_csv (Spec)
    test_exit_code,      \* main local
    config_results,      \* run_analysis local: config name -> analyze_configuration result
    summary_data,        \* run_analysis local: list of (config_desc, total_ms)
    speedup_pos,         \* run_analysis: i of "for i, ... in enumerate(summary_data[1:])"
    config_key,          \* run_analysis loop local
    speedups,            \* run_analysis loop local: the ratios baseline_ms / config_ms
    speedup_lines,       \* the "Speedup vs No Cache" lines printed so far
    sorted_file_numbers, \* export_to_csv local
    csv_data,            \* export_to_csv local: the rows
    csv_path,            \* run_analysis local: what export_to_csv returned
    csv_file,            \* the file RESULTS_DIR / CSV_FILENAME
    exception,           \* the exception that left run_analysis, if any
    analysis_exit_code,  \* main local
    exit_status,         \* the status the process exits with
    \* ---- format_test_name (SpecFormat)
    arg_file_name,       \* the argument file_name of the call
    formatted_name,      \* what the call returned
    \* ---- find_log_files (SpecLocate); its result is log_files
    direct_dir,          \* KERNEL_TIME_DIR / config_name
    nested_dir,          \* KERNEL_TIME_DIR / "ablation_studies" / config_name
    config_path,         \* find_log_files local
    \* ---- build_registry (SpecRegistry)
    tests,               \* build_registry local: the list discover_all_tests returned
    registry,            \* build_registry local / the saved registry
    \* ---- main of src/test_asan_wrapper.py and its child process (SpecWrapper)
    child_script,        \* what test_asan.py writes, chunk by chunk, in its order
    child_pos,           \* the chunk the child writes next
    child_state,         \* "none" before Popen, then "running", then "exited"
    out_stdout,          \* the pipe out.stdout: chunks written and not yet read
    out_stderr,          \* the pipe out.stderr
    stdout,              \* main local: what out.stdout.read() has read so far
    stderr,              \* main local: what out.stderr.read() has read so far
    wrapper_exit_status, \* the status of sys.exit in main
    \* ---- shared
    pc

analyze_vars == <<log_files, file_pos, file_number, base_name, lines, lines_read,
                  test_name, test_number, results, parse_exception, file_totals, returned>>

run_vars == <<test_exit_code, config_results, summary_data, speedup_pos, config_key,
              speedups, speedup_lines, sorted_file_numbers, csv_data, csv_path,
              csv_file, exception, analysis_exit_code, exit_status>>

format_vars == <<arg_file_name, formatted_name>>

locate_vars == <<direct_dir, nested_dir, config_path>>

registry_vars == <<tests, registry>>

wrapper_vars == <<child_script, child_pos, child_state, out_stdout, out_stderr,
                  stdout, stderr, wrapper_exit_status>>

\* the variables of the specifications of single functions
side_vars == <<format_vars, locate_vars, registry_vars, wrapper_vars>>

vars == <<analyze_vars, run_vars, side_vars, pc>>

\* ------------------------------------------------------------ Python values
\* the empty dict {}
EmptyDict == <<>>

\* d[k] = v on a dict
DictSet(d, k, v) == [x \in (DOMAIN d) \cup {k} |-> IF x = k THEN v ELSE d[x]]

\* analyze_configuration returns None or a dict; both as a record
NoData == [isNone |-> TRUE, totals |-> EmptyDict]
Some_NoneWhenEmpty(d) == [isNone |-> d = EmptyDict, totals |-> d]

Some(d) == [isNone |-> FALSE, totals |-> d]

Digits == {"0", "1", "2", "3", "4", "5", "6", "7", "8", "9"}

DigitValue(c) ==
    CASE c = "0" -> 0 [] c = "1" -> 1 [] c = "2" -> 2 [] c = "3" -> 3
      [] c = "4" -> 4 [] c = "5" -> 5 [] c = "6" -> 6 [] c = "7" -> 7
      [] c = "8" -> 8 [] c = "9" -> 9

\* int(s) for a string of decimal digits
RECURSIVE IntOf(_)
IntOf(s) ==
    IF s = <<>> THEN 0
    ELSE IntOf(SubSeq(s, 1, Len(s) - 1)) * 10 + DigitValue(s[Len(s)])

\* length of the run of digits of s that starts at position i
RECURSIVE DigitRun(_, _)
DigitRun(s, i) ==
    IF i > Len(s) \/ s[i] \notin Digits THEN 0 ELSE 1 + DigitRun(s, i + 1)

\* float(tok) succeeds on a token of [\d.]+ : at most one dot, at least one digit
IsNumber(tok) ==
    /\ Cardinality({i \in DOMAIN tok : tok[i] = "."}) <= 1
    /\ \E i \in DOMAIN tok : tok[i] \in Digits

\* float(tok), in ticks of 1/10000 ms
ParseFloat(tok) ==
    LET dots == {i \in DOMAIN tok : tok[i] = "."}
        p == IF dots = {} THEN Len(tok) + 1 ELSE CHOOSE i \in dots : TRUE
        frac == SubSeq(tok, p + 1, Len(tok))
        FracDigit(k) == IF k <= Len(frac) THEN DigitValue(frac[k]) ELSE 0
    IN IntOf(SubSeq(tok, 1, p - 1)) * 10000
         + FracDigit(1) * 1000 + FracDigit(2) * 100 + FracDigit(3) * 10 + FracDigit(4)


\* ------------------------------------------------------------ file names
SuffixLog == <<".", "l", "o", "g">>

\* re.search(r'^(\d+)_(.+)\.log$', log_file.name) is not None
ConventionMatch_AnyLog(name) ==
    /\ Len(name) > Len(SuffixLog)
    /\ SubSeq(name, Len(name) - Len(SuffixLog) + 1, Len(name)) = SuffixLog

ConventionMatch(name) ==
    LET n == DigitRun(name, 1)
    IN /\ n >= 1
       /\ Len(name) >= n + 1 + 1 + Len(SuffixLog)
       /\ name[n + 1] = "_"
       /\ SubSeq(name, Len(name) - Len(SuffixLog) + 1, Len(name)) = SuffixLog

\* int(match.group(1)) of that match
FileNumberOf(name) == IntOf(SubSeq(name, 1, DigitRun(name, 1)))

\* match.group(2) of that match
BaseNameOf(name) ==
    SubSeq(name, DigitRun(name, 1) + 2, Len(name) - Len(SuffixLog))

\* float('inf'), the sort key of a name with no "<digits>_" in it
Inf == 0 - 1

\* extract_number: re.search(r'(\d+)_', path.name), the leftmost run of digits
\* that is followed by "_"
extract_number(path) ==
    LET name == path.name
        starts == {i \in DOMAIN name :
                     /\ name[i] \in Digits
                     /\ i + DigitRun(name, i) <= Len(name)
                     /\ name[i + DigitRun(name, i)] = "_"}
        first == CHOOSE i \in starts : \A j \in starts : i <= j
    IN IF starts = {} THEN Inf
       ELSE IntOf(SubSeq(name, first, first + DigitRun(name, first) - 1))

\* key(a) <= key(b) with float('inf') above every int
KeyLE(a, b) == b = Inf \/ (a # Inf /\ a <= b)

\* base names of log files: "liger_kernel_test_jsd_test_fn", "flag_gems_test_add"
BaseNameA ==
    <<"l", "i", "g", "e", "r", "_", "k", "e", "r", "n", "e", "l", "_", "t", "e", "s", "t", "_",
      "j", "s", "d", "_", "t", "e", "s", "t", "_", "f", "n">>

BaseNameB ==
    <<"f", "l", "a", "g", "_", "g", "e", "m", "s", "_", "t", "e", "s", "t", "_", "a", "d", "d">>

\* the files a configuration directory of the model can hold:
\* "1_<A>.log", "01_<B>.log", "2_<B>.log" and the catch-all "run.log"
LogFileUniverse ==
    { [parent |-> "", name |-> <<"1", "_">> \o BaseNameA \o SuffixLog],
      [parent |-> "", name |-> <<"0", "1", "_">> \o BaseNameB \o SuffixLog],
      [parent |-> "", name |-> <<"2", "_">> \o BaseNameB \o SuffixLog],
      [parent |-> "", name |-> <<"r", "u", "n">> \o SuffixLog] }

\* what find_log_files can return: a list without duplicates (list(set(...)))
\* that log_files.sort(key=extract_number) has put in key order; files with
\* equal keys are in either order
LocatedLists ==
    UNION { { s \in [1..n -> LogFileUniverse] :
                /\ \A i, j \in 1..n : i # j => s[i] # s[j]
                /\ \A i \in 1..n, j \in 1..n :
                      i < j => KeyLE(extract_number(s[i]), extract_number(s[j])) }
            : n \in 0..MaxFiles }

\* ------------------------------------------------------------ log lines
\* a line of a log file, as the four re.search calls of parse_triton_sanitizer
\* see it: each field is <<>> (no match) or the tuple of the captured groups
\* (name_match holds group(1).strip())
NoMatch == <<>>

Line(number_match, name_match, pytest_match, match) ==
    [number_match |-> number_match, name_match |-> name_match,
     pytest_match |-> pytest_match, match |-> match]

\* "Test Number: 7"
LineNumber == Line(<<"7">>, NoMatch, NoMatch, NoMatch)
\* "Test: a"
LineName == Line(NoMatch, <<"a">>, NoMatch, NoMatch)
\* "test_m.py::c PASSED"
LinePytest == Line(NoMatch, NoMatch, <<"test_m.py::c">>, NoMatch)
\* "Triton-Viz: execution time for k: 1.5 ms"
LineTimeA == Line(NoMatch, NoMatch, NoMatch, <<"k", <<"1", ".", "5">> >>)
\* "Triton-Viz: execution time for k: .25 ms"
LineTimeB == Line(NoMatch, NoMatch, NoMatch, <<"k", <<".", "2", "5">> >>)
\* "Triton-Viz: execution time for k: 1.2.3 ms"
LineTimeBadDots == Line(NoMatch, NoMatch, NoMatch, <<"k", <<"1", ".", "2", ".", "3">> >>)
\* "Triton-Viz: execution time for k: . ms"
LineTimeBadDot == Line(NoMatch, NoMatch, NoMatch, <<"k", <<".">> >>)

\* "Test: b Triton-Viz: execution time for k: 2 ms" (header and measurement on one
\* line; "Test:\s+(.+)" captures the rest of the line)
LineNameTime ==
    Line(NoMatch, <<"b Triton-Viz: execution time for k: 2 ms">>, NoMatch, <<"k", <<"2">> >>)

\* "Test:  " (nothing but white space after the colon: "Test:\s+(.+)" captures
\* the last blank, and group(1).strip() is the empty string)
LineNameBlank == Line(NoMatch, <<"">>, NoMatch, NoMatch)

\* "Test Number: 8 Test: a" (number and header on one line)
LineNumberName == Line(<<"8">>, <<"a">>, NoMatch, NoMatch)

\* "Test: x test_m.py::c" (header and pytest-style identifier on one line)
LineNamePytest == Line(NoMatch, <<"x test_m.py::c">>, <<"test_m.py::c">>, NoMatch)

Lines ==
    {LineNumber, LineName, LinePytest, LineTimeA, LineTimeB,
     LineTimeBadDots, LineTimeBadDot, LineNameTime,
     LineNameBlank, LineNumberName, LineNamePytest}

\* ------------------------------------------------------------ parse_triton_sanitizer
None == <<>>

\* truth value of test_name / test_number: neither None nor the empty string
Truthy(s) == s # None /\ s # <<"">>

\* test_number after the "Test Number:" search of a line
NumberAfter_ClearedAtHeader(line, number) ==
    IF line.number_match # NoMatch THEN line.number_match
    ELSE IF line.name_match # NoMatch THEN None
    ELSE number

NumberAfter(line, number) ==
    IF line.number_match # NoMatch THEN line.number_match ELSE number

\* test_name after the "Test:" and pytest searches of a line
NameAfter_NoPrefix(line, number, name) ==
    IF line.pytest_match # NoMatch THEN line.pytest_match
    ELSE IF line.name_match # NoMatch THEN line.name_match
    ELSE name

\* the pytest search placed before the "Test:" search
NameAfter_HeaderLast(line, number, name) ==
    IF line.name_match # NoMatch
    THEN IF Truthy(number) /\ Truthy(line.name_match)
         THEN <<number[1], "_", line.name_match[1]>>
         ELSE line.name_match
    ELSE IF line.pytest_match # NoMatch THEN line.pytest_match ELSE name

NameAfter(line, number, name) ==
    LET afterName ==
            IF line.name_match # NoMatch
            THEN IF Truthy(number) /\ Truthy(line.name_match)
                 THEN <<number[1], "_", line.name_match[1]>>
                 ELSE line.name_match
            ELSE name
    IN IF line.pytest_match # NoMatch THEN line.pytest_match ELSE afterName

\* "if match and test_name:"
Attributed_NoLabelCheck(line, name) == line.match # NoMatch

Attributed(line, name) == line.match # NoMatch /\ Truthy(name)

\* results[test_name].append({'kernel': ..., 'exec_time_ms': ...}) on a defaultdict(list)
AppendMeasurement_Overwrite(res, name, m) == DictSet(res, name, <<m>>)

AppendMeasurement(res, name, m) ==
    DictSet(res, name, (IF name \in DOMAIN res THEN res[name] ELSE <<>>) \o <<m>>)

\* ------------------------------------------------------------ analyze_configuration
\* sum of m['exec_time_ms'] over a list of measurements
RECURSIVE SumList(_)
SumList(ms) ==
    IF ms = <<>> THEN 0 ELSE ms[1].exec_time_ms + SumList(Tail(ms))

\* total_ms and total_count over results.items()
RECURSIVE TotalMs(_)
TotalMs(res) ==
    IF DOMAIN res = {} THEN 0
    ELSE LET k == CHOOSE x \in DOMAIN res : TRUE
         IN SumList(res[k]) + TotalMs([x \in (DOMAIN res) \ {k} |-> res[x]])

RECURSIVE TotalCount(_)
TotalCount(res) ==
    IF DOMAIN res = {} THEN 0
    ELSE LET k == CHOOSE x \in DOMAIN res : TRUE
         IN Len(res[k]) + TotalCount([x \in (DOMAIN res) \ {k} |-> res[x]])

\* the record stored in file_totals[file_number]
FileRecord(name, res) ==
    [file_name |-> name, total_ms |-> TotalMs(res), count |-> TotalCount(res)]

\* file_totals[file_number] = {...}: stored whatever the count is
StoreRecord_OnlyMeasured(totals, number, name, res) ==
    IF TotalCount(res) = 0 THEN totals ELSE DictSet(totals, number, FileRecord(name, res))

StoreRecord(totals, number, name, res) == DictSet(totals, number, FileRecord(name, res))

Unbound == 0 - 1

\* main and run_analysis before they start
RunIdle ==
    /\ test_exit_code = Unbound
    /\ config_results = EmptyDict
    /\ summary_data = <<>>
    /\ speedup_pos = 0
    /\ config_key = ""
    /\ speedups = <<>>
    /\ speedup_lines = <<>>
    /\ sorted_file_numbers = <<>>
    /\ csv_data = <<>>
    /\ csv_path = None
    /\ csv_file = [written |-> FALSE, fieldnames |-> <<>>, rows |-> <<>>]
    /\ exception = ""
    /\ analysis_exit_code = Unbound
    /\ exit_status = Unbound

\* analyze_configuration before it starts
AnalyzeIdle ==
    /\ log_files = <<>>
    /\ file_pos = 1
    /\ file_number = Unbound
    /\ base_name = <<>>
    /\ lines = <<>>
    /\ lines_read = 0
    /\ test_name = None
    /\ test_number = None
    /\ results = EmptyDict
    /\ parse_exception = ""
    /\ file_totals = EmptyDict
    /\ returned = NoData

\* the wrapper before main runs: no child process, empty pipes
WrapperIdle ==
    /\ child_script = <<>>
    /\ child_pos = 1
    /\ child_state = "none"
    /\ out_stdout = <<>>
    /\ out_stderr = <<>>
    /\ stdout = <<>>
    /\ stderr = <<>>
    /\ wrapper_exit_status = Unbound

\* format_test_name, find_log_files and build_registry before they are called
SideIdle ==
    /\ WrapperIdle
    /\ arg_file_name = <<>>
    /\ formatted_name = <<>>
    /\ direct_dir = [exists |-> FALSE, entries |-> {}]
    /\ nested_dir = [exists |-> FALSE, entries |-> {}]
    /\ config_path = None
    /\ tests = <<>>
    /\ registry = EmptyDict

InitAnalyze ==
    /\ AnalyzeIdle
    /\ RunIdle
    /\ SideIdle
    /\ pc = "analyze"

\* log_files = find_log_files(config_name); if not log_files: return None
AnalyzeStart ==
    /\ UNCHANGED <<run_vars, side_vars>>
    /\ pc = "analyze"
    /\ \E fs \in LocatedLists :
          /\ log_files' = fs
          /\ \/ /\ fs = <<>>
                /\ returned' = NoData
                /\ pc' = "returned"
             \/ /\ fs # <<>>
                /\ returned' = returned
                /\ pc' = "loop"
    /\ UNCHANGED <<file_pos, file_number, base_name, lines, lines_read,
                   test_name, test_number, results, parse_exception, file_totals>>

\* a file whose name does not match the convention: continue
SkipFile ==
    /\ UNCHANGED <<run_vars, side_vars>>
    /\ pc = "loop"
    /\ file_pos <= Len(log_files)
    /\ ~ConventionMatch(log_files[file_pos].name)
    /\ file_pos' = file_pos + 1
    /\ UNCHANGED <<log_files, file_number, base_name, lines, lines_read,
                   test_name, test_number, results, parse_exception, file_totals,
                   returned, pc>>

\* the name matches: file_number and base_name are bound, parse_triton_sanitizer
\* starts and opens the file; open() either succeeds or raises (FileNotFoundError
\* or another exception), and then the function returns {}
OpenFile ==
    /\ UNCHANGED <<run_vars, side_vars>>
    /\ pc = "loop"
    /\ file_pos <= Len(log_files)
    /\ ConventionMatch(log_files[file_pos].name)
    /\ file_number' = FileNumberOf(log_files[file_pos].name)
    /\ base_name' = BaseNameOf(log_files[file_pos].name)
    /\ lines' = <<>>
    /\ test_name' = None
    /\ test_number' = None
    /\ results' = EmptyDict
    /\ \/ /\ pc' = "parse"
          /\ parse_exception' = ""
       \/ /\ pc' = "aggregate"
          /\ parse_exception' \in {"FileNotFoundError", "Exception"}
    /\ UNCHANGED <<log_files, file_pos, lines_read, file_totals, returned>>

\* one iteration of "for line in f"
ParseLine ==
    /\ UNCHANGED <<run_vars, side_vars>>
    /\ pc = "parse"
    /\ lines_read < MaxLines
    /\ \E line \in Lines :
         LET number == NumberAfter(line, test_number)
             name == NameAfter(line, number, test_name)
         IN /\ lines' = Append(lines, line)
            /\ lines_read' = lines_read + 1
            /\ test_number' = number
            /\ test_name' = name
            /\ IF Attributed(line, name)
               THEN IF IsNumber(line.match[2])
                    THEN /\ results' = AppendMeasurement(results, name,
                                          [kernel |-> line.match[1],
                                           exec_time_ms |-> ParseFloat(line.match[2])])
                         /\ pc' = "parse"
                         /\ parse_exception' = parse_exception
                    ELSE \* float() raises ValueError: except Exception: return {}
                         /\ results' = EmptyDict
                         /\ pc' = "aggregate"
                         /\ parse_exception' = "Exception"
               ELSE /\ results' = results
                    /\ pc' = "parse"
                    /\ parse_exception' = parse_exception
    /\ UNCHANGED <<log_files, file_pos, file_number, base_name, file_totals, returned>>

\* the file is exhausted: return results
EndOfFile ==
    /\ UNCHANGED <<run_vars, side_vars>>
    /\ pc = "parse"
    /\ pc' = "aggregate"
    /\ UNCHANGED <<log_files, file_pos, file_number, base_name, lines, lines_read,
                   test_name, test_number, results, parse_exception, file_totals, returned>>

\* the sums over results.items() and file_totals[file_number] = {...}
Aggregate ==
    /\ UNCHANGED <<run_vars, side_vars>>
    /\ pc = "aggregate"
    /\ file_totals' = StoreRecord(file_totals, file_number, base_name, results)
    /\ file_pos' = file_pos + 1
    /\ pc' = "loop"
    /\ UNCHANGED <<log_files, file_number, base_name, lines, lines_read,
                   test_name, test_number, results, parse_exception, returned>>

\* the loop is over: return file_totals
AnalyzeReturn ==
    /\ UNCHANGED <<run_vars, side_vars>>
    /\ pc = "loop"
    /\ file_pos > Len(log_files)
    /\ returned' = Some(file_totals)
    /\ pc' = "returned"
    /\ UNCHANGED <<log_files, file_pos, file_number, base_name, lines, lines_read,
                   test_name, test_number, results, parse_exception, file_totals>>

NextAnalyze ==
    \/ AnalyzeStart
    \/ SkipFile
    \/ OpenFile
    \/ ParseLine
    \/ EndOfFile
    \/ Aggregate
    \/ AnalyzeReturn

SpecAnalyze == InitAnalyze /\ [][NextAnalyze]_vars


\* ------------------------------------------------------------ properties of SpecAnalyze
\* positions of the lines that carry a measurement
MeasurementLines(ls) == {i \in DOMAIN ls : ls[i].match # NoMatch}

\* positions of the lines that carry a "Test:" header or a pytest-style identifier
LabelLines(ls) ==
    {i \in DOMAIN ls : ls[i].name_match # NoMatch \/ ls[i].pytest_match # NoMatch}

\* position of the first label line, Len + 1 when there is none
FirstLabelPos(ls) ==
    IF LabelLines(ls) = {} THEN Len(ls) + 1
    ELSE CHOOSE i \in LabelLines(ls) : \A j \in LabelLines(ls) : i <= j

\* sum of the well-formed time values written on the lines from position p on
RECURSIVE SumTimesFrom(_, _)
SumTimesFrom(ls, p) ==
    IF p > Len(ls) THEN 0
    ELSE (IF ls[p].match # NoMatch /\ IsNumber(ls[p].match[2])
          THEN ParseFloat(ls[p].match[2]) ELSE 0) + SumTimesFrom(ls, p + 1)

\* the first line of the file sets a label that is in force (neither None nor empty)
StartsWithLabel(ls) ==
    /\ ls # <<>>
    /\ 1 \in LabelLines(ls)
    /\ Truthy(NameAfter(ls[1], NumberAfter(ls[1], None), None))

\* positions of the "Test:" lines that carry no name (the label they set is the
\* empty string, which is no valid label)
BlankHeaderLines(ls) == {i \in DOMAIN ls : ls[i].name_match = <<"">>}

\* the loop of analyze_configuration has stored the record of the file whose
\* lines are in "lines" (the latest file whose name matches the convention)
RecordStored == pc \in {"loop", "returned"} /\ file_number # Unbound

\* C2 (as claimed): a measurement line whose time token is not a number is
\* skipped alone; when parse_triton_sanitizer returns, every well-formed
\* measurement of a file that starts with a label line is in the result,
\* whatever malformed measurement lines the file holds.
C2_MalformedLineSkippedAlone ==
    (pc = "aggregate" /\ StartsWithLabel(lines))
        => TotalCount(results)
             = Cardinality({i \in MeasurementLines(lines) : IsNumber(lines[i].match[2])})

\* C3: for a file named "<index>_<baseName>.log" that starts with a valid label
\* line, whose label lines are all valid and whose measurement lines are all
\* well formed, the record stored for its index has total_ms equal to the sum
\* of the values on those lines and count equal to their number, whatever
\* labels they were attributed to.
C3_TotalIsSumAndCountIsN ==
    (/\ RecordStored
     /\ StartsWithLabel(lines)
     /\ BlankHeaderLines(lines) = {}
     /\ \A i \in MeasurementLines(lines) : IsNumber(lines[i].match[2]))
        => /\ file_number \in DOMAIN file_totals
           /\ file_totals[file_number].total_ms = SumTimesFrom(lines, 1)
           /\ file_totals[file_number].count = Cardinality(MeasurementLines(lines))

\* C3 witness: a stored record of two measurements that sit under two labels
C3_Witness ==
    /\ RecordStored
    /\ StartsWithLabel(lines)
    /\ \A i \in MeasurementLines(lines) : IsNumber(lines[i].match[2])
    /\ Cardinality(MeasurementLines(lines)) = 2
    /\ Cardinality(DOMAIN results) = 2
    /\ file_totals[file_number].count = 2

\* C4: a measurement line read before any label line of its file is in no
\* label's list and adds nothing to the total or the count of the file: while
\* no label line has been read the result is empty, and the measurements
\* counted are at most those written at or after the first label line.
C4_UnlabelledMeasurementDropped ==
    /\ pc \in {"parse", "aggregate"}
         => /\ LabelLines(lines) = {} => DOMAIN results = {}
            /\ TotalCount(results)
                 <= Cardinality({i \in MeasurementLines(lines) : i >= FirstLabelPos(lines)})
            /\ TotalMs(results) <= SumTimesFrom(lines, FirstLabelPos(lines))
    /\ RecordStored
         => /\ file_totals[file_number].count
                 <= Cardinality({i \in MeasurementLines(lines) : i >= FirstLabelPos(lines)})
            /\ file_totals[file_number].total_ms <= SumTimesFrom(lines, FirstLabelPos(lines))

\* C4 witness: the record of a file whose only measurement line precedes its
\* only label line has count 0
C4_Witness ==
    /\ RecordStored
    /\ Len(lines) = 2
    /\ MeasurementLines(lines) = {1}
    /\ IsNumber(lines[1].match[2])
    /\ LabelLines(lines) = {2}
    /\ file_totals[file_number].count = 0
    /\ file_totals[file_number].total_ms = 0

\* a name of the form "<integer>_<baseName>.log": some digits, "_", a base name
\* of at least one character, ".log"
IndexConvention(name) ==
    \E n \in 1..Len(name) :
        /\ \A i \in 1..n : name[i] \in Digits
        /\ Len(name) >= n + 6
        /\ name[n + 1] = "_"
        /\ name[Len(name) - 3] = "." /\ name[Len(name) - 2] = "l"
        /\ name[Len(name) - 1] = "o" /\ name[Len(name)] = "g"

\* C13: a located file whose name is not of the form "<integer>_<baseName>.log"
\* (run.log in particular) is passed over: the step that meets it leaves
\* file_totals as it is, reads no line of it and moves to the next file; the
\* indices of file_totals are only those of convention-named files already
\* visited.
C13_UnconventionalFileExcluded ==
    /\ [](DOMAIN file_totals \subseteq
              {FileNumberOf(log_files[i].name) :
                   i \in {j \in DOMAIN log_files :
                            j < file_pos /\ IndexConvention(log_files[j].name)}})
    /\ [][(/\ pc = "loop"
           /\ file_pos <= Len(log_files)
           /\ ~IndexConvention(log_files[file_pos].name))
              => /\ file_totals' = file_totals
                 /\ lines_read' = lines_read
                 /\ parse_exception' = parse_exception
                 /\ file_pos' = file_pos + 1
                 /\ pc' = "loop"]_vars

\* C13 witness: the mapping returned for run.log and one convention-named file
\* holds the index of that file only
C13_Witness ==
    /\ pc = "returned"
    /\ Len(log_files) = 2
    /\ \E i, j \in DOMAIN log_files :
          /\ log_files[i].name = <<"r", "u", "n">> \o SuffixLog
          /\ IndexConvention(log_files[j].name)
          /\ DOMAIN returned.totals = {FileNumberOf(log_files[j].name)}
          /\ returned.totals[FileNumberOf(log_files[j].name)].file_name
                = BaseNameOf(log_files[j].name)

\* the display name the loop of analyze_configuration leaves under each index
\* when it runs over the list fs, from position i on
RECURSIVE NamesOver(_, _, _)
NamesOver(fs, i, names) ==
    IF i > Len(fs) THEN names
    ELSE NamesOver(fs, i + 1,
                   IF ConventionMatch(fs[i].name)
                   THEN DictSet(names, FileNumberOf(fs[i].name), BaseNameOf(fs[i].name))
                   ELSE names)

\* C17 (as claimed): what analyze_configuration returns depends on the set of
\* located files only: for every list find_log_files can return for the same
\* set of files (the set iterated in another order), the loop leaves the
\* display names that this run returned.
C17_SameTreeSameReport ==
    (pc = "returned" /\ ~returned.isNone)
        => \A fs \in LocatedLists :
              {fs[i] : i \in DOMAIN fs} = {log_files[i] : i \in DOMAIN log_files}
                 => NamesOver(fs, 1, EmptyDict)
                      = [n \in DOMAIN returned.totals |-> returned.totals[n].file_name]

\* positions of the "Test Number:" lines
NumberLines(ls) == {i \in DOMAIN ls : ls[i].number_match # NoMatch}

\* the number of the latest "Test Number:" line
LatestNumber(ls) ==
    ls[CHOOSE i \in NumberLines(ls) : \A j \in NumberLines(ls) : j <= i].number_match[1]

\* C20: after a line with a pytest-style identifier the label is that
\* identifier; after a "Test: <name>" line without one the label is
\* "<number>_<name>" when a "Test Number:" line was read in this file and
\* "<name>" otherwise.
C20_LabelOfHeaderLine ==
    (pc \in {"parse", "aggregate"} /\ lines # <<>>)
        => LET last == lines[Len(lines)]
           IN /\ last.pytest_match # NoMatch => test_name = <<last.pytest_match[1]>>
              /\ (last.pytest_match = NoMatch /\ Truthy(last.name_match))
                    => test_name = IF NumberLines(lines) # {}
                                   THEN <<LatestNumber(lines), "_", last.name_match[1]>>
                                   ELSE <<last.name_match[1]>>

\* C20 witness: "Test Number: 7", "Test: a" and a measurement were read, and the
\* measurement is under the label "7_a"
C20_Witness ==
    /\ pc = "parse"
    /\ Len(lines) = 3
    /\ lines[1].number_match = <<"7">>
    /\ lines[2].name_match = <<"a">>
    /\ lines[2].pytest_match = NoMatch
    /\ lines[3].match # NoMatch
    /\ test_name = <<"7", "_", "a">>
    /\ DOMAIN results = {<<"7", "_", "a">>}

\* the located files whose name has the form "<integer>_<baseName>.log"
ConventionFiles == {i \in DOMAIN log_files : ConventionMatch(log_files[i].name)}

\* C11: analyze_configuration returns None exactly when find_log_files returned
\* the empty list; with at least one located file it returns a mapping, which
\* holds a record under the index of every located file named by the
\* convention, also when all those records are zero.
C11_NoDataIffNoFiles ==
    pc = "returned"
        => /\ returned.isNone <=> log_files = <<>>
           /\ returned.isNone => returned.totals = EmptyDict
           /\ \A i \in ConventionFiles :
                 FileNumberOf(log_files[i].name) \in DOMAIN returned.totals

\* C11 witness: a mapping returned for located files that were read and gave no
\* measurement, with an all-zero record for each convention-named file
C11_Witness ==
    /\ pc = "returned"
    /\ ~returned.isNone
    /\ lines_read > 0
    /\ Cardinality(ConventionFiles) = 2
    /\ Cardinality(DOMAIN returned.totals) = 2
    /\ \A n \in DOMAIN returned.totals :
          returned.totals[n].count = 0 /\ returned.totals[n].total_ms = 0

\* C12: a convention-named file that gives no measurement (no matching line, or
\* open() raised) has the record (base name, 0, 0) under its index, and the
\* loop goes on: when analyze_configuration returns, every located file was
\* visited and every convention-named one has its index in the mapping.
C12_ZeroRecordKept ==
    /\ (pc = "aggregate" /\ parse_exception # "") => results = EmptyDict
    /\ (RecordStored /\ TotalCount(results) = 0)
          => /\ file_number \in DOMAIN file_totals
             /\ file_totals[file_number]
                  = [file_name |-> base_name, total_ms |-> 0, count |-> 0]
    /\ (pc = "returned" /\ log_files # <<>>)
          => /\ file_pos = Len(log_files) + 1
             /\ \A i \in ConventionFiles :
                   FileNumberOf(log_files[i].name) \in DOMAIN file_totals

\* C12 witness: the first of two convention-named files could not be opened, its
\* zero record is stored and the loop is at the second file
C12_Witness ==
    /\ pc = "loop"
    /\ parse_exception \in {"FileNotFoundError", "Exception"}
    /\ lines = <<>>
    /\ Len(log_files) = 2
    /\ file_pos = 2
    /\ ConventionFiles = {1, 2}
    /\ file_number \in DOMAIN file_totals
    /\ file_totals[file_number].count = 0

\* the step reads one more line of the file being parsed
ReadsLine == pc = "parse" /\ Len(lines') = Len(lines) + 1

\* number of measurements a result holds under a label
CountUnder(res, label) == IF label \in DOMAIN res THEN Len(res[label]) ELSE 0

\* C21: a line is taken through the four patterns in the order test number,
\* test name, pytest-style identifier, measurement, within the step that reads
\* it: a header on the line of a "Test Number:" takes the number of that line;
\* a line with a header and a pytest-style identifier leaves the identifier as
\* the label; a measurement on a line that sets a label goes under the label
\* the line set, and the list of the label active before is left as it was.
C21_SameLinePatternsInOrder ==
    [][ReadsLine =>
         LET line == lines'[Len(lines')]
         IN /\ line.number_match # NoMatch => test_number' = line.number_match
            /\ (/\ line.number_match # NoMatch
                /\ Truthy(line.name_match)
                /\ line.pytest_match = NoMatch)
                  => test_name' = <<line.number_match[1], "_", line.name_match[1]>>
            /\ line.pytest_match # NoMatch => test_name' = line.pytest_match
            /\ (/\ line.match # NoMatch
                /\ IsNumber(line.match[2])
                /\ (Truthy(line.name_match) \/ line.pytest_match # NoMatch))
                  => /\ CountUnder(results', test_name') = CountUnder(results, test_name') + 1
                     /\ results'[test_name'][Len(results'[test_name'])]
                          = [kernel |-> line.match[1],
                             exec_time_ms |-> ParseFloat(line.match[2])]
                     /\ test_name' # test_name
                          => CountUnder(results', test_name) = CountUnder(results, test_name)
       ]_vars

\* C21 witness: after "Test: a", the line "Test: b Triton-Viz: ... 2 ms" and the
\* line "Test: x test_m.py::c", the measurement is under the label of its own
\* line, nothing is under "a", and the label is the pytest-style identifier
C21_Witness ==
    /\ pc = "parse"
    /\ lines = <<LineName, LineNameTime, LineNamePytest>>
    /\ DOMAIN results = {LineNameTime.name_match}
    /\ Len(results[LineNameTime.name_match]) = 1
    /\ test_name = LineNamePytest.pytest_match

\* the label the label line at position i of a file sets: the identifier of a
\* pytest-style line, otherwise the name with the latest number read up to
\* that line, if any, before it
LabelSetBy(ls, i) ==
    IF ls[i].pytest_match # NoMatch THEN ls[i].pytest_match
    ELSE IF NumberLines(SubSeq(ls, 1, i)) # {}
         THEN <<LatestNumber(SubSeq(ls, 1, i)), "_", ls[i].name_match[1]>>
         ELSE ls[i].name_match

\* position of the most recent label line
LastLabelPos(ls) == CHOOSE i \in LabelLines(ls) : \A j \in LabelLines(ls) : j <= i

\* a label is active: a measurement read now is attributed ("if match and test_name")
LabelActive == Truthy(test_name)

\* C22 (as claimed): a measurement that is recorded goes under the label set
\* by the most recent label line at or before it in the same file; once a
\* label is active, it stays active for the rest of the scan of the file; and
\* the scan of every file starts with no label, no pending number and an
\* empty result, whatever files were parsed before.
C22_LastSeenWinsWithinFile ==
    /\ [][(ReadsLine /\ TotalCount(results') = TotalCount(results) + 1)
             => /\ LabelLines(lines') # {}
                /\ LET label == LabelSetBy(lines', LastLabelPos(lines'))
                   IN CountUnder(results', label) = CountUnder(results, label) + 1
          ]_vars
    /\ [][(pc = "parse" /\ LabelActive) => LabelActive']_vars
    /\ [][(pc = "loop" /\ pc' \in {"parse", "aggregate"})
             => /\ test_name' = None
                /\ test_number' = None
                /\ results' = EmptyDict
                /\ lines' = <<>>
          ]_vars

\* C26 (as claimed): the record of an index covers every located file of that
\* index: when the loop stores the aggregate of a file whose index already has
\* a record (a file of the same index was aggregated before), the total and
\* the count of the record grow by the total and the count of the file, and
\* the first file of an index starts its record with its own.
C26_SameIndexFilesAllCounted ==
    [][(pc = "aggregate" /\ pc' = "loop")
          => /\ file_number \in DOMAIN file_totals'
             /\ file_totals'[file_number].count
                  = (IF file_number \in DOMAIN file_totals
                     THEN file_totals[file_number].count ELSE 0) + TotalCount(results)
             /\ file_totals'[file_number].total_ms
                  = (IF file_number \in DOMAIN file_totals
                     THEN file_totals[file_number].total_ms ELSE 0) + TotalMs(results)
      ]_vars

\* C27: during the scan of a file the pending number is the number of the most
\* recent "Test Number:" line read, whatever lines came after that line; a
\* "Test: <name>" line read while a number is pending sets the label
\* "<number>_<name>"; a line that carries neither a header nor a pytest-style
\* identifier (a "Test Number:" line on its own in particular) leaves the
\* label as it is, and a measurement read after it goes under that label.
C27_PendingNumberKept ==
    /\ [](pc \in {"parse", "aggregate"}
            => test_number = IF NumberLines(lines) = {} THEN None
                             ELSE <<LatestNumber(lines)>>)
    /\ [][ReadsLine =>
            LET line == lines'[Len(lines')]
            IN /\ test_number # None => test_number' # None
               /\ line.number_match = NoMatch => test_number' = test_number
               /\ (/\ test_number # None
                   /\ line.number_match = NoMatch
                   /\ Truthy(line.name_match)
                   /\ line.pytest_match = NoMatch)
                     => test_name' = <<test_number[1], "_", line.name_match[1]>>
               /\ (line.name_match = NoMatch /\ line.pytest_match = NoMatch)
                     => /\ test_name' = test_name
                        /\ (/\ line.match # NoMatch
                            /\ IsNumber(line.match[2])
                            /\ Truthy(test_name))
                              => CountUnder(results', test_name)
                                   = CountUnder(results, test_name) + 1
         ]_vars

\* C27 witness: "Test Number: 7", a pytest-style identifier line and "Test: a"
\* were read, and the label is "7_a"
C27_Witness ==
    /\ pc = "parse"
    /\ lines = <<LineNumber, LinePytest, LineName>>
    /\ test_number = <<"7">>
    /\ test_name = <<"7", "_", "a">>


\* ------------------------------------------------------------ format_test_name
repos ==
    << <<"l", "i", "g", "e", "r", "_", "k", "e", "r", "n", "e", "l">>,
       <<"f", "l", "a", "g", "_", "g", "e", "m", "s">>,
       <<"t", "r", "i", "t", "o", "n", "b", "e", "n", "c", "h">> >>

\* the repository of "if repo == 'tritonbench':"
tritonbench_NoRepository == <<>>

tritonbench == repos[3]

MarkerTest == <<"t", "e", "s", "t", "_">>

\* s.startswith(prefix)
StartsWith(s, prefix) ==
    Len(s) >= Len(prefix) /\ SubSeq(s, 1, Len(prefix)) = prefix

\* the while loop: positions (from 1) of the non-overlapping occurrences of "test_"
RECURSIVE TestPositions(_, _)
TestPositions(remainder, i) ==
    IF i > Len(remainder) THEN <<>>
    ELSE IF StartsWith(SubSeq(remainder, i, Len(remainder)), MarkerTest)
         THEN <<i>> \o TestPositions(remainder, i + Len(MarkerTest))
         ELSE TestPositions(remainder, i + 1)

\* "if repo is None: return file_name"
UnknownRepository_FirstSeparatorSlashed(file_name) ==
    LET seps == {i \in DOMAIN file_name : file_name[i] = "_"}
    IN [i \in DOMAIN file_name |->
          IF seps # {} /\ i = (CHOOSE k \in seps : \A j \in seps : k <= j)
          THEN "/" ELSE file_name[i]]

UnknownRepository(file_name) == file_name

format_test_name(file_name) ==
    LET known == {r \in DOMAIN repos : StartsWith(file_name, repos[r] \o <<"_">>)}
    IN IF known = {} THEN UnknownRepository(file_name)
       ELSE LET r == CHOOSE x \in known : \A y \in known : x <= y
                repo == repos[r]
                remainder == SubSeq(file_name, Len(repo) + 2, Len(file_name))
                test_positions == TestPositions(remainder, 1)
            IN IF repo = tritonbench \/ Len(test_positions) <= 1
               THEN repo \o <<"/">> \o remainder
               ELSE LET split_pos == test_positions[Len(test_positions)]
                        test_file == SubSeq(remainder, 1, split_pos - 2)
                        test_func == SubSeq(remainder, split_pos, Len(remainder))
                    IN repo \o <<"/">> \o test_file \o <<"/">> \o test_func

\* ------------------------------------------------------------ run_analysis, export_to_csv
\* records held by all the configurations of one run together
MaxRecords == 3

CONFIG_NAMES ==
    <<"no_cache", "symbol_only", "symbol_loop", "symbol_loop_grid", "all_cache">>

configs ==
    << <<"no_cache", "No Cache (0,0,0,0)">>,
       <<"symbol_only", "Symbol Only (1,0,0,0)">>,
       <<"symbol_loop", "Symbol + Loop (1,1,0,0)">>,
       <<"symbol_loop_grid", "Symbol + Loop + Grid (1,1,1,0)">>,
       <<"all_cache", "All Cache (1,1,1,1)">> >>

config_keys == <<"symbol_only", "symbol_loop", "symbol_loop_grid", "all_cache">>

\* the file numbers the records of the model carry
Indices == {1, 2}

\* records analyze_configuration can store: no measurement, one of 1.5 ms, one of .25 ms
AggregateRecords ==
    { [file_name |-> BaseNameA, total_ms |-> 0, count |-> 0],
      [file_name |-> BaseNameA, total_ms |-> ParseFloat(<<"1", ".", "5">>), count |-> 1],
      [file_name |-> BaseNameB, total_ms |-> ParseFloat(<<".", "2", "5">>), count |-> 1] }

\* what analyze_configuration can return when at most n more records are allowed
AnalyzeResults(n) ==
    {NoData} \cup
    { Some(d) : d \in UNION { [D -> AggregateRecords] :
                                D \in {X \in SUBSET Indices : Cardinality(X) <= n} } }

\* number of records in config_results
RECURSIVE RecordCount(_)
RecordCount(cr) ==
    IF DOMAIN cr = {} THEN 0
    ELSE LET k == CHOOSE x \in DOMAIN cr : TRUE
         IN Cardinality(DOMAIN cr[k].totals)
              + RecordCount([x \in (DOMAIN cr) \ {k} |-> cr[x]])

\* dict.get(k, default)
DictGet(d, k, default) == IF k \in DOMAIN d THEN d[k] ELSE default

\* truth value of an analyze_configuration result: neither None nor {}
TruthyDict(r) == ~r.isNone /\ DOMAIN r.totals # {}

\* sorted(S) for a set of ints
RECURSIVE Sorted(_)
Sorted(S) ==
    IF S = {} THEN <<>>
    ELSE LET m == CHOOSE x \in S : \A y \in S : x <= y
         IN <<m>> \o Sorted(S \ {m})

\* sum(t['total_ms'] for t in totals.values())
RECURSIVE SumTotals(_)
SumTotals(totals) ==
    IF DOMAIN totals = {} THEN 0
    ELSE LET k == CHOOSE x \in DOMAIN totals : TRUE
         IN totals[k].total_ms + SumTotals([x \in (DOMAIN totals) \ {k} |-> totals[x]])

\* the loop that builds summary_data, from position p of configs on
RECURSIVE SummaryFrom(_, _)
SummaryFrom(cr, p) ==
    IF p > Len(configs) THEN <<>>
    ELSE LET totals == DictGet(cr, configs[p][1], NoData)
         IN (IF TruthyDict(totals)
             THEN << <<configs[p][2], SumTotals(totals.totals)>> >>
             ELSE <<>>) \o SummaryFrom(cr, p + 1)

\* "if baseline_ms > 0 and config_ms > 0:"
Eligible_BaselineOnly(baseline_ms, config_ms) == baseline_ms > 0

Eligible(baseline_ms, config_ms) == baseline_ms > 0 /\ config_ms > 0

\* the file numbers of baseline_totals, in iteration order, that append a ratio
RatioNumbers(baseline_totals, config_totals) ==
    Sorted({n \in DOMAIN baseline_totals :
              /\ n \in DOMAIN config_totals
              /\ Eligible(baseline_totals[n].total_ms, config_totals[n].total_ms)})

\* baseline_ms / config_ms, kept as the pair of its operands
RECURSIVE RatiosOf(_, _, _)
RatiosOf(numbers, baseline_totals, config_totals) ==
    IF numbers = <<>> THEN <<>>
    ELSE << [num |-> baseline_totals[numbers[1]].total_ms,
             den |-> config_totals[numbers[1]].total_ms] >>
         \o RatiosOf(Tail(numbers), baseline_totals, config_totals)

\* f"{x:.3f}" of the rational num / den: the number of thousandths, rounded
Format3f(num, den) == (2 * 1000 * num + den) \div (2 * den)

\* greatest common divisor, to keep a rational in lowest terms
RECURSIVE Gcd(_, _)
Gcd(a, b) == IF b = 0 THEN a ELSE Gcd(b, a % b)

Reduced(num, den) == [num |-> num \div Gcd(num, den), den |-> den \div Gcd(num, den)]

\* sum(speedups), as a rational
RECURSIVE SumRatios(_)
SumRatios(rs) ==
    IF rs = <<>> THEN [num |-> 0, den |-> 1]
    ELSE LET t == SumRatios(Tail(rs))
             r == Reduced(rs[1].num, rs[1].den)
         IN Reduced(r.num * t.den + t.num * r.den, r.den * t.den)

\* min(speedups), max(speedups)
MinRatio(rs) ==
    LET k == CHOOSE i \in DOMAIN rs :
                 \A j \in DOMAIN rs : rs[i].num * rs[j].den <= rs[j].num * rs[i].den
    IN rs[k]

MaxRatio(rs) ==
    LET k == CHOOSE i \in DOMAIN rs :
                 \A j \in DOMAIN rs : rs[i].num * rs[j].den >= rs[j].num * rs[i].den
    IN rs[k]

\* the line printed for a non-empty list of speedups
SpeedupLine(config_desc, rs) ==
    [config_desc |-> config_desc,
     avg |-> Format3f(SumRatios(rs).num, SumRatios(rs).den * Len(rs)),
     min |-> Format3f(MinRatio(rs).num, MinRatio(rs).den),
     max |-> Format3f(MaxRatio(rs).num, MaxRatio(rs).den)]

\* "if file_totals: all_file_numbers.update(file_totals.keys())"
UpdateFileNumbers_Replace(all_file_numbers, file_totals_) ==
    IF TruthyDict(file_totals_) THEN DOMAIN file_totals_.totals ELSE all_file_numbers

UpdateFileNumbers(all_file_numbers, file_totals_) ==
    IF TruthyDict(file_totals_)
    THEN all_file_numbers \cup DOMAIN file_totals_.totals
    ELSE all_file_numbers

\* the loop "for config_name in CONFIG_NAMES" that fills all_file_numbers, over
\* a list of configuration names
RECURSIVE FileNumbersOver(_, _, _)
FileNumbersOver(cr, names, all_file_numbers) ==
    IF names = <<>> THEN all_file_numbers
    ELSE FileNumbersOver(cr, Tail(names),
                         UpdateFileNumbers(all_file_numbers, DictGet(cr, names[1], NoData)))

\* export_to_csv: all_file_numbers
AllFileNumbers(cr) == FileNumbersOver(cr, CONFIG_NAMES, {})

\* "if not all_file_numbers:"
NothingToExport_Never(all_file_numbers) == FALSE

NothingToExport(all_file_numbers) == all_file_numbers = {}

\* the configurations whose mapping holds file_number
Holders(cr, n) ==
    {p \in DOMAIN CONFIG_NAMES :
        LET r == DictGet(cr, CONFIG_NAMES[p], Some(EmptyDict))
        IN ~r.isNone /\ n \in DOMAIN r.totals}

\* the configuration at which the display-name loop breaks
NameHolder_Last(cr, n) == CHOOSE p \in Holders(cr, n) : \A q \in Holders(cr, n) : q <= p

NameHolder(cr, n) == CHOOSE p \in Holders(cr, n) : \A q \in Holders(cr, n) : p <= q

\* "if file_number in file_totals" on a configuration whose result is None, met
\* before the loop breaks: TypeError
NameLoopRaises(cr, n) ==
    \E p \in DOMAIN CONFIG_NAMES :
        /\ DictGet(cr, CONFIG_NAMES[p], Some(EmptyDict)).isNone
        /\ \A q \in Holders(cr, n) : p < q

\* "file_totals.get(...)" on a configuration whose result is None: AttributeError
CellLoopRaises(cr) ==
    \E p \in DOMAIN CONFIG_NAMES : DictGet(cr, CONFIG_NAMES[p], Some(EmptyDict)).isNone

\* file_totals.get(file_number, {}).get('total_ms', 0.0) for one configuration
CellValue_OfNameHolder(cr, config_name, n) ==
    cr[CONFIG_NAMES[NameHolder(cr, n)]].totals[n].total_ms

CellValue(cr, config_name, n) ==
    LET file_totals_ == DictGet(cr, config_name, Some(EmptyDict)).totals
    IN IF n \in DOMAIN file_totals_ THEN file_totals_[n].total_ms ELSE 0

\* one row of csv_data
RowOf(cr, n) ==
    [Test_Name |-> format_test_name(cr[CONFIG_NAMES[NameHolder(cr, n)]].totals[n].file_name),
     cells |-> [p \in DOMAIN CONFIG_NAMES |->
                  Format3f(CellValue(cr, CONFIG_NAMES[p], n), 10000)]]

\* the rows of the file numbers of a list; a file number no configuration holds
\* gives no row ("continue")
RECURSIVE RowsOf(_, _)
RowsOf(cr, numbers) ==
    IF numbers = <<>> THEN <<>>
    ELSE (IF Holders(cr, numbers[1]) = {} THEN <<>> ELSE <<RowOf(cr, numbers[1])>>)
         \o RowsOf(cr, Tail(numbers))

\* fieldnames of the DictWriter
Fieldnames ==
    << <<"Test_Name">> >> \o [p \in DOMAIN CONFIG_NAMES |-> <<"ablation_kernel_time_", CONFIG_NAMES[p]>>]

\* "return 0 if csv_path else 1"
AnalysisExitCode(path) == IF path # None THEN 0 ELSE 1


\* RESULTS_DIR / CSV_FILENAME
CsvPath == <<"results/ablation_kernel_time.csv">>

Init ==
    /\ AnalyzeIdle
    /\ RunIdle
    /\ SideIdle
    /\ pc = "main"

\* main up to run_tests: triton-sanitizer is in PATH, or it is not and the user
\* answers the prompt with yes or with no ("Aborted.", sys.exit(1))
MainStart ==
    /\ pc = "main"
    /\ \/ /\ pc' = "run_tests"
          /\ exit_status' = exit_status
       \/ /\ pc' = "exited"
          /\ exit_status' = 1
    /\ UNCHANGED <<test_exit_code, config_results, summary_data, speedup_pos, config_key,
                   speedups, speedup_lines, sorted_file_numbers, csv_data, csv_path,
                   csv_file, exception, analysis_exit_code>>
    /\ UNCHANGED <<analyze_vars, side_vars>>

\* test_exit_code = run_tests(): the return code of the runner
RunTests ==
    /\ pc = "run_tests"
    /\ \E rc \in {0, 1} : test_exit_code' = rc
    /\ pc' = "configs"
    /\ UNCHANGED <<config_results, summary_data, speedup_pos, config_key,
                   speedups, speedup_lines, sorted_file_numbers, csv_data, csv_path,
                   csv_file, exception, analysis_exit_code, exit_status>>
    /\ UNCHANGED <<analyze_vars, side_vars>>

\* where run_analysis goes after iteration p of "for config_name, config_desc in
\* configs": the SUMMARY block follows the whole loop
AfterAnalysis_OneShort(p) == IF p >= Len(configs) - 1 THEN "summary" ELSE "configs"

AfterAnalysis(p) == IF p = Len(configs) THEN "summary" ELSE "configs"

\* one iteration of "for config_name, config_desc in configs":
\* config_results[config_name] = analyze_configuration(config_name)
AnalyzeConfiguration ==
    /\ pc = "configs"
    /\ LET p == Cardinality(DOMAIN config_results) + 1
       IN /\ \E r \in AnalyzeResults(MaxRecords - RecordCount(config_results)) :
                config_results' = DictSet(config_results, configs[p][1], r)
          /\ pc' = AfterAnalysis(p)
    /\ UNCHANGED <<test_exit_code, summary_data, speedup_pos, config_key,
                   speedups, speedup_lines, sorted_file_numbers, csv_data, csv_path,
                   csv_file, exception, analysis_exit_code, exit_status>>
    /\ UNCHANGED <<analyze_vars, side_vars>>

\* where run_analysis goes after iteration i of the speedup loop (or before the first)
AfterSpeedup(done, sd) == IF done < Len(sd) - 1 THEN "speedup" ELSE "export"

\* the SUMMARY block: summary_data, and whether the speedup table is printed
Summary ==
    /\ pc = "summary"
    /\ summary_data' = SummaryFrom(config_results, 1)
    /\ pc' = IF summary_data' # <<>> /\ summary_data'[1][1] = configs[1][2]
             THEN AfterSpeedup(0, summary_data')
             ELSE "export"
    /\ UNCHANGED <<test_exit_code, config_results, speedup_pos, config_key,
                   speedups, speedup_lines, sorted_file_numbers, csv_data, csv_path,
                   csv_file, exception, analysis_exit_code, exit_status>>
    /\ UNCHANGED <<analyze_vars, side_vars>>

\* one iteration of "for i, (config_desc, total_ms) in enumerate(summary_data[1:])"
SpeedupStep ==
    /\ pc = "speedup"
    /\ LET i == speedup_pos
           config_desc == summary_data[i + 2][1]
           key == config_keys[i + 1]
           config_totals == DictGet(config_results, key, Some(EmptyDict))
           baseline_totals == DictGet(config_results, CONFIG_NAMES[1], Some(EmptyDict)).totals
           rs == RatiosOf(RatioNumbers(baseline_totals, config_totals.totals),
                          baseline_totals, config_totals.totals)
       IN /\ config_key' = key
          /\ IF DOMAIN baseline_totals # {} /\ config_totals.isNone
             THEN \* "file_number in config_totals" with config_totals None
                  /\ exception' = "TypeError:442"
                  /\ pc' = "raised"
                  /\ speedups' = <<>>
                  /\ UNCHANGED <<speedup_lines, speedup_pos>>
             ELSE IF \E k \in DOMAIN rs : rs[k].den = 0
             THEN \* baseline_ms / config_ms with config_ms 0
                  /\ exception' = "ZeroDivisionError:445"
                  /\ pc' = "raised"
                  /\ speedups' = SubSeq(rs, 1, (CHOOSE k \in DOMAIN rs :
                                    rs[k].den = 0 /\ \A j \in 1..(k - 1) : rs[j].den # 0) - 1)
                  /\ UNCHANGED <<speedup_lines, speedup_pos>>
             ELSE /\ speedups' = rs
                  /\ speedup_lines' = IF rs # <<>>
                                      THEN Append(speedup_lines, SpeedupLine(config_desc, rs))
                                      ELSE speedup_lines
                  /\ speedup_pos' = i + 1
                  /\ pc' = AfterSpeedup(i + 1, summary_data)
                  /\ exception' = exception
    /\ UNCHANGED <<test_exit_code, config_results, summary_data,
                   sorted_file_numbers, csv_data, csv_path,
                   csv_file, analysis_exit_code, exit_status>>
    /\ UNCHANGED <<analyze_vars, side_vars>>

\* csv_path = export_to_csv(config_results)
ExportToCsv ==
    /\ pc = "export"
    /\ LET all_file_numbers == AllFileNumbers(config_results)
           numbers == Sorted(all_file_numbers)
       IN IF NothingToExport(all_file_numbers)
          THEN \* "No test results to export": return None
               /\ csv_path' = None
               /\ pc' = "return"
               /\ UNCHANGED <<sorted_file_numbers, csv_data, csv_file, exception>>
          ELSE /\ sorted_file_numbers' = numbers
               /\ IF numbers # <<>> /\ NameLoopRaises(config_results, numbers[1])
                  THEN /\ exception' = "TypeError:354"
                       /\ pc' = "raised"
                       /\ UNCHANGED <<csv_data, csv_file, csv_path>>
                  ELSE IF numbers # <<>> /\ CellLoopRaises(config_results)
                  THEN /\ exception' = "AttributeError:366"
                       /\ pc' = "raised"
                       /\ UNCHANGED <<csv_data, csv_file, csv_path>>
                  ELSE /\ csv_data' = RowsOf(config_results, numbers)
                       /\ exception' = exception
                       /\ pc' = "return"
                       /\ \/ \* the table is written
                             /\ csv_file' = [written |-> TRUE, fieldnames |-> Fieldnames,
                                             rows |-> csv_data']
                             /\ csv_path' = CsvPath
                          \/ \* open() raises: "Error exporting CSV", return None
                             /\ csv_file' = csv_file
                             /\ csv_path' = None
    /\ UNCHANGED <<test_exit_code, config_results, summary_data, speedup_pos, config_key,
                   speedups, speedup_lines, analysis_exit_code, exit_status>>
    /\ UNCHANGED <<analyze_vars, side_vars>>

\* "return 0 if csv_path else 1", received by main as analysis_exit_code
AnalysisReturn ==
    /\ pc = "return"
    /\ analysis_exit_code' = AnalysisExitCode(csv_path)
    /\ pc' = "print_results"
    /\ UNCHANGED <<test_exit_code, config_results, summary_data, speedup_pos, config_key,
                   speedups, speedup_lines, sorted_file_numbers, csv_data, csv_path,
                   csv_file, exception, exit_status>>
    /\ UNCHANGED <<analyze_vars, side_vars>>

\* the argument of sys.exit at the end of main
ExitStatus_TestsFirst(test_rc, analysis_rc) == IF test_rc # 0 THEN test_rc ELSE analysis_rc

ExitStatus(test_rc, analysis_rc) == analysis_rc

\* print_results(analysis_exit_code); sys.exit(analysis_exit_code)
MainExit ==
    /\ pc = "print_results"
    /\ exit_status' = ExitStatus(test_exit_code, analysis_exit_code)
    /\ pc' = "exited"
    /\ UNCHANGED <<test_exit_code, config_results, summary_data, speedup_pos, config_key,
                   speedups, speedup_lines, sorted_file_numbers, csv_data, csv_path,
                   csv_file, exception, analysis_exit_code>>
    /\ UNCHANGED <<analyze_vars, side_vars>>

Next ==
    \/ MainStart
    \/ RunTests
    \/ AnalyzeConfiguration
    \/ Summary
    \/ SpeedupStep
    \/ ExportToCsv
    \/ AnalysisReturn
    \/ MainExit

Spec == Init /\ [][Next]_vars


\* ------------------------------------------------------------ properties of Spec
ConfigNameSet == {CONFIG_NAMES[p] : p \in DOMAIN CONFIG_NAMES}

\* the loop over configs is over: every configuration has its result
AllAnalysed == DOMAIN config_results = ConfigNameSet

\* the aggregate mapping of the configuration at position p (empty for None)
TotalsAt(p) == config_results[CONFIG_NAMES[p]].totals

\* the indices present in any configuration's aggregate mapping
IndexUnion == UNION {DOMAIN TotalsAt(p) : p \in DOMAIN CONFIG_NAMES}

\* export_to_csv has returned
ExportReturned == pc \in {"return", "print_results", "exited"} /\ AllAnalysed

\* export_to_csv was left by an exception
ExportRaised == pc = "raised" /\ exception \in {"TypeError:354", "AttributeError:366"}

\* the index of row k of csv_data
RowIndex(k) == sorted_file_numbers[k]

\* C1 (as claimed): when at least one configuration has an index-bearing record
\* and another has no log files (its result is None), run_analysis does not
\* raise, the table written has one row per index of the union with 0.000 in
\* the columns of the missing configurations, and the status is 0.
C1_MissingConfigurationNonFatal ==
    (/\ AllAnalysed
     /\ IndexUnion # {}
     /\ \E p \in DOMAIN CONFIG_NAMES : config_results[CONFIG_NAMES[p]].isNone)
        => /\ pc # "raised"
           /\ (pc = "exited" /\ csv_file.written)
                => /\ Len(csv_file.rows) = Cardinality(IndexUnion)
                   /\ \A k \in DOMAIN csv_file.rows : \A p \in DOMAIN CONFIG_NAMES :
                         config_results[CONFIG_NAMES[p]].isNone
                            => csv_file.rows[k].cells[p] = 0
                   /\ exit_status = 0

\* C5 (as claimed): once export_to_csv has been called, its rows are exactly
\* the indices of the union of the configurations' mappings, one row per index,
\* in ascending order.
C5_RowsAreTheIndexUnion ==
    (ExportReturned \/ ExportRaised)
        => /\ Len(csv_data) = Cardinality(IndexUnion)
           /\ sorted_file_numbers = Sorted(IndexUnion)

\* orders in which the five configurations can be merged: CONFIG_NAMES with two
\* positions exchanged (or none), rotated, and reversed
ConfigOrders ==
    {[i \in DOMAIN CONFIG_NAMES |->
         CONFIG_NAMES[IF i = a THEN b ELSE IF i = b THEN a ELSE i]] :
        a \in DOMAIN CONFIG_NAMES, b \in DOMAIN CONFIG_NAMES}
    \cup {[i \in DOMAIN CONFIG_NAMES |-> CONFIG_NAMES[((i + r - 1) % Len(CONFIG_NAMES)) + 1]] :
            r \in DOMAIN CONFIG_NAMES}
    \cup {[i \in DOMAIN CONFIG_NAMES |-> CONFIG_NAMES[Len(CONFIG_NAMES) + 1 - i]]}

\* config_results with only the first k configurations of CONFIG_NAMES assembled
\* (the others hold no record yet)
FirstConfigs(k) ==
    [c \in DOMAIN config_results |->
        IF \E p \in 1..k : CONFIG_NAMES[p] = c THEN config_results[c] ELSE Some(EmptyDict)]

\* C16: when export_to_csv returns, the set of row indices is the same in
\* whatever order the configurations' mappings are merged into it; merging
\* configuration k + 1 into the table assembled from the first k gives the
\* table assembled from the first k + 1: the indices of both, for an index
\* already there the name of the same configuration and the same values of
\* the first k configurations, and the value of the merged configuration in
\* its own column; the table of all five is the one export_to_csv wrote.
C16_IndexUnionOrderFree ==
    /\ ((pc = "return" /\ AllAnalysed) \/ ExportRaised)
          => /\ \A order \in ConfigOrders :
                   FileNumbersOver(config_results, order, {})
                     = {sorted_file_numbers[k] : k \in DOMAIN sorted_file_numbers}
             /\ \A k \in 1..(Len(CONFIG_NAMES) - 1) :
                   FileNumbersOver(config_results, <<CONFIG_NAMES[k + 1]>>,
                       FileNumbersOver(config_results, SubSeq(CONFIG_NAMES, 1, k), {}))
                     = FileNumbersOver(config_results, SubSeq(CONFIG_NAMES, 1, k + 1), {})
    /\ (pc = "return" /\ AllAnalysed /\ csv_file.written)
          => /\ \A k \in 1..(Len(CONFIG_NAMES) - 1) :
                   /\ AllFileNumbers(FirstConfigs(k + 1))
                        = AllFileNumbers(FirstConfigs(k)) \cup DOMAIN TotalsAt(k + 1)
                   /\ \A n \in AllFileNumbers(FirstConfigs(k)) :
                         /\ NameHolder(FirstConfigs(k + 1), n) = NameHolder(FirstConfigs(k), n)
                         /\ \A p \in DOMAIN CONFIG_NAMES :
                               CellValue(FirstConfigs(k + 1), CONFIG_NAMES[p], n)
                                 = IF p = k + 1
                                   THEN CellValue(config_results, CONFIG_NAMES[p], n)
                                   ELSE CellValue(FirstConfigs(k), CONFIG_NAMES[p], n)
             /\ csv_file.rows = RowsOf(FirstConfigs(Len(CONFIG_NAMES)), sorted_file_numbers)

\* C16 witness: the first configuration holds only index 2, a later one brings
\* index 1, and the table has the rows of 1 and 2 in that order
C16_Witness ==
    /\ pc = "return"
    /\ AllAnalysed
    /\ csv_file.written
    /\ DOMAIN TotalsAt(1) = {2}
    /\ \E p \in DOMAIN CONFIG_NAMES : p > 1 /\ DOMAIN TotalsAt(p) = {1}
    /\ sorted_file_numbers = <<1, 2>>
    /\ Len(csv_data) = 2

\* C23: while analyze_configuration has not returned for all five
\* configurations, run_analysis has computed no summary, no speedup ratio or
\* line, no index list and no row, and the table file is not written; the
\* table file changes only in export_to_csv, with all five results present,
\* and once written it is never written again.
C23_MergeBehindBarrier ==
    /\ [](~AllAnalysed
            => /\ summary_data = <<>>
               /\ config_key = ""
               /\ speedups = <<>>
               /\ speedup_lines = <<>>
               /\ sorted_file_numbers = <<>>
               /\ csv_data = <<>>
               /\ csv_path = None
               /\ ~csv_file.written)
    /\ [][/\ (sorted_file_numbers' # sorted_file_numbers \/ csv_data' # csv_data)
               => (pc = "export" /\ AllAnalysed)
          /\ csv_file' # csv_file
               => (pc = "export" /\ AllAnalysed /\ ~csv_file.written /\ csv_file'.written)
         ]_vars

\* C23 witness: a run that printed a speedup line and wrote a table of two rows
\* has exited, with the results of all five configurations
C23_Witness ==
    /\ pc = "exited"
    /\ AllAnalysed
    /\ speedup_lines # <<>>
    /\ csv_file.written
    /\ Len(csv_file.rows) = 2

\* C30: whatever run_tests returns, the next step of main is the first
\* analyze_configuration call of run_analysis; and when main exits after the
\* test run, its status is the one run_analysis returned: 0 when the table was
\* written and 1 otherwise, whether the test run returned 0 or not.
C30_ExitStatusIsAnalysisStatus ==
    /\ [][pc = "run_tests"
            => /\ pc' = "configs"
               /\ test_exit_code' \in {0, 1}
               /\ config_results' = EmptyDict
               /\ exit_status' = Unbound]_vars
    /\ [](pc \in {"configs", "summary", "speedup", "export", "return",
                   "print_results", "raised"} => test_exit_code # Unbound)
    /\ []((pc = "exited" /\ test_exit_code # Unbound)
            => /\ AllAnalysed
               /\ exit_status = analysis_exit_code
               /\ exit_status = IF csv_file.written THEN 0 ELSE 1)

\* C30 witness: the test run returned 1, the analysis wrote the table and the
\* process has exited with status 0
C30_Witness ==
    /\ pc = "exited"
    /\ test_exit_code = 1
    /\ csv_file.written
    /\ analysis_exit_code = 0
    /\ exit_status = 0

\* C6: the name of every row is format_test_name of the display name held by
\* the first configuration, in the order of CONFIG_NAMES, whose mapping holds
\* the row's index.
C6_NameFromFirstConfiguration ==
    ExportReturned
        => /\ Len(csv_data) = Len(sorted_file_numbers)
           /\ \A k \in DOMAIN csv_data :
                \E p \in DOMAIN CONFIG_NAMES :
                    /\ RowIndex(k) \in DOMAIN TotalsAt(p)
                    /\ \A q \in 1..(p - 1) : RowIndex(k) \notin DOMAIN TotalsAt(q)
                    /\ csv_data[k].Test_Name
                         = format_test_name(TotalsAt(p)[RowIndex(k)].file_name)

\* C6 witness: a row whose index is held by two configurations under different
\* display names
C6_Witness ==
    /\ ExportReturned
    /\ \E k \in DOMAIN csv_data : \E p, q \in DOMAIN CONFIG_NAMES :
          /\ p < q
          /\ RowIndex(k) \in DOMAIN TotalsAt(p)
          /\ RowIndex(k) \in DOMAIN TotalsAt(q)
          /\ TotalsAt(p)[RowIndex(k)].file_name # TotalsAt(q)[RowIndex(k)].file_name
          /\ csv_data[k].Test_Name # format_test_name(TotalsAt(q)[RowIndex(k)].file_name)

\* C7: every row has one cell per configuration of CONFIG_NAMES: the total of
\* the configuration's record for the row's index (three decimals), and 0.000
\* when the configuration has no record for it.
C7_OneCellPerConfiguration ==
    ExportReturned
        => \A k \in DOMAIN csv_data :
              /\ DOMAIN csv_data[k].cells = DOMAIN CONFIG_NAMES
              /\ \A p \in DOMAIN CONFIG_NAMES :
                    csv_data[k].cells[p]
                      = IF RowIndex(k) \in DOMAIN TotalsAt(p)
                        THEN Format3f(TotalsAt(p)[RowIndex(k)].total_ms, 10000)
                        ELSE 0

\* C7 witness: a row with a cell of a configuration that lacks the index, a cell
\* of a configuration whose record totals zero, and a cell of a positive total
C7_Witness ==
    /\ ExportReturned
    /\ \E k \in DOMAIN csv_data : \E p, q, r \in DOMAIN CONFIG_NAMES :
          /\ RowIndex(k) \notin DOMAIN TotalsAt(p)
          /\ RowIndex(k) \in DOMAIN TotalsAt(q)
          /\ TotalsAt(q)[RowIndex(k)].total_ms = 0
          /\ RowIndex(k) \in DOMAIN TotalsAt(r)
          /\ TotalsAt(r)[RowIndex(k)].total_ms > 0
          /\ csv_data[k].cells[p] = csv_data[k].cells[q]
          /\ csv_data[k].cells[r] > 0

\* the ratios baselineTotal[i] / C.total[i] over the records of the
\* configuration at position p
OwnRatios(p) ==
    RatiosOf(Sorted({n \in DOMAIN TotalsAt(p) :
                       /\ n \in DOMAIN TotalsAt(1)
                       /\ TotalsAt(1)[n].total_ms > 0
                       /\ TotalsAt(p)[n].total_ms > 0}),
             TotalsAt(1), TotalsAt(p))

\* C8 (as claimed): once the speedup table is printed, every non-baseline
\* configuration that has data has a line under its own label exactly when its
\* own ratio set is not empty, and the line holds the mean, minimum and maximum
\* of that set.
C8_SpeedupUnderOwnLabel ==
    (pc \in {"export", "return", "print_results", "exited"} /\ AllAnalysed)
        => \A p \in DOMAIN CONFIG_NAMES :
              (p > 1 /\ TruthyDict(config_results[CONFIG_NAMES[p]]))
                 => LET mine == {k \in DOMAIN speedup_lines :
                                   speedup_lines[k].config_desc = configs[p][2]}
                    IN IF OwnRatios(p) = <<>>
                       THEN mine = {}
                       ELSE /\ Cardinality(mine) = 1
                            /\ \A k \in mine :
                                 speedup_lines[k] = SpeedupLine(configs[p][2], OwnRatios(p))

\* C9: every ratio of the list of speedups comes from an index that is in the
\* baseline mapping and in the mapping of the configuration whose totals the
\* loop divides by (config_key), with both totals above zero; no division by
\* zero happens.
C9_RatiosOnlyFromPositiveTotals ==
    /\ exception # "ZeroDivisionError:445"
    /\ config_key # ""
         => LET b == config_results[CONFIG_NAMES[1]].totals
                c == config_results[config_key].totals
                both == {n \in DOMAIN b \cap DOMAIN c :
                           b[n].total_ms > 0 /\ c[n].total_ms > 0}
            IN /\ Len(speedups) <= Cardinality(both)
               /\ \A k \in DOMAIN speedups :
                     /\ speedups[k].den > 0
                     /\ \E n \in both : /\ speedups[k].num = b[n].total_ms
                                        /\ speedups[k].den = c[n].total_ms

\* C9 witness: an iteration of the speedup loop over a configuration that holds
\* an index of the baseline with a zero total on one side has appended no ratio
C9_Witness ==
    /\ pc \in {"speedup", "export"}
    /\ config_key # ""
    /\ speedups = <<>>
    /\ \E n \in DOMAIN config_results[CONFIG_NAMES[1]].totals :
          /\ n \in DOMAIN config_results[config_key].totals
          /\ \/ /\ config_results[CONFIG_NAMES[1]].totals[n].total_ms = 0
                /\ config_results[config_key].totals[n].total_ms > 0
             \/ /\ config_results[CONFIG_NAMES[1]].totals[n].total_ms > 0
                /\ config_results[config_key].totals[n].total_ms = 0

\* C10: when no configuration contributed a record, export_to_csv writes no
\* table, run_analysis returns 1 and the process exits with that status.
C10_EmptyUniverseFails ==
    (AllAnalysed /\ IndexUnion = {})
        => /\ ~csv_file.written
           /\ pc # "raised"
           /\ ExportReturned => csv_path = None
           /\ pc \in {"print_results", "exited"} => analysis_exit_code = 1
           /\ pc = "exited" => exit_status = 1

\* C10 witness: a run over directories that hold only files outside the naming
\* convention, or no directory at all, has exited with status 1
C10_Witness ==
    /\ AllAnalysed
    /\ IndexUnion = {}
    /\ \E p \in DOMAIN CONFIG_NAMES : ~config_results[CONFIG_NAMES[p]].isNone
    /\ \E p \in DOMAIN CONFIG_NAMES : config_results[CONFIG_NAMES[p]].isNone
    /\ pc = "exited"
    /\ exit_status = 1
    /\ ~csv_file.written


\* ------------------------------------------------------------ format_test_name on its own
\* pieces a base name of the model is made of after its prefix
MaxTokens == 3

\* "test_", "mytest_", "a_", "b"
TokenSet == {MarkerTest, <<"m", "y">> \o MarkerTest, <<"a", "_">>, <<"b">>}

\* "liger_kernel_", "flag_gems_", "tritonbench_", "liger_kernel" and no prefix
PrefixSet ==
    {repos[1] \o <<"_">>, repos[2] \o <<"_">>, repos[3] \o <<"_">>, repos[1], <<>>}

\* the strings made of at most n tokens
RECURSIVE TokenStrings(_)
TokenStrings(n) ==
    IF n = 0 THEN {<<>>}
    ELSE TokenStrings(n - 1) \cup {s \o t : s \in TokenStrings(n - 1), t \in TokenSet}

\* the arguments format_test_name is called with
BaseNames == {p \o r : p \in PrefixSet, r \in TokenStrings(MaxTokens)}

InitFormat ==
    /\ AnalyzeIdle
    /\ RunIdle
    /\ formatted_name = <<>>
    /\ direct_dir = [exists |-> FALSE, entries |-> {}]
    /\ nested_dir = [exists |-> FALSE, entries |-> {}]
    /\ config_path = None
    /\ tests = <<>>
    /\ registry = EmptyDict
    /\ WrapperIdle
    /\ arg_file_name \in BaseNames
    /\ pc = "format"

\* formatted_name = format_test_name(file_name)
FormatTestName ==
    /\ pc = "format"
    /\ formatted_name' = format_test_name(arg_file_name)
    /\ pc' = "formatted"
    /\ UNCHANGED <<analyze_vars, run_vars, arg_file_name, locate_vars, registry_vars,
                   wrapper_vars>>

\* a second call with the argument of the first
FormatTestNameAgain ==
    /\ pc = "formatted"
    /\ formatted_name' = format_test_name(arg_file_name)
    /\ pc' = "formatted_again"
    /\ UNCHANGED <<analyze_vars, run_vars, arg_file_name, locate_vars, registry_vars,
                   wrapper_vars>>

\* a second call whose argument is the result of the first
FormatTestNameOfResult ==
    /\ pc = "formatted"
    /\ arg_file_name' = formatted_name
    /\ formatted_name' = format_test_name(formatted_name)
    /\ pc' = "formatted_result"
    /\ UNCHANGED <<analyze_vars, run_vars, locate_vars, registry_vars, wrapper_vars>>

NextFormat ==
    \/ FormatTestName
    \/ FormatTestNameAgain
    \/ FormatTestNameOfResult

SpecFormat == InitFormat /\ [][NextFormat]_vars

\* ------------------------------------------------------------ properties of SpecFormat
\* what follows the prefix "<repository>_" of the argument
RemainderAfter(repo) == SubSeq(arg_file_name, Len(repo) + 2, Len(arg_file_name))

\* the positions at which "test_" occurs in a string
Occurrences(str) ==
    {i \in 1..Len(str) :
        /\ i + 4 <= Len(str)
        /\ str[i] = "t" /\ str[i + 1] = "e" /\ str[i + 2] = "s"
        /\ str[i + 3] = "t" /\ str[i + 4] = "_"}

LastOccurrence(str) == CHOOSE i \in Occurrences(str) : \A j \in Occurrences(str) : j <= i

\* a string without its trailing separator "_"
WithoutTrailingSeparator(str) ==
    IF str # <<>> /\ str[Len(str)] = "_" THEN SubSeq(str, 1, Len(str) - 1) ELSE str

\* C14 (as claimed): for an argument with the prefix liger_kernel_ or flag_gems_
\* the result is "<repository>/<remainder>" when the remainder holds at most one
\* "test_", and otherwise "<repository>/<group>/<case>", where case starts at
\* the last "test_" and group is what precedes it without the trailing separator.
C14_SplitAtLastMarker ==
    pc = "formatted"
        => \A r \in {1, 2} :
              StartsWith(arg_file_name, repos[r] \o <<"_">>)
                 => LET rem == RemainderAfter(repos[r])
                    IN IF Cardinality(Occurrences(rem)) <= 1
                       THEN formatted_name = repos[r] \o <<"/">> \o rem
                       ELSE formatted_name
                              = repos[r] \o <<"/">>
                                  \o WithoutTrailingSeparator(
                                         SubSeq(rem, 1, LastOccurrence(rem) - 1))
                                  \o <<"/">> \o SubSeq(rem, LastOccurrence(rem), Len(rem))

\* C15: an argument that does not start with a known repository name followed
\* by "_" is returned unchanged, and an argument with the prefix tritonbench_
\* gives "tritonbench/<remainder>" however many "test_" the remainder holds.
C15_UnknownPrefixAndTritonbench ==
    pc = "formatted"
        => /\ (\A r \in DOMAIN repos : ~StartsWith(arg_file_name, repos[r] \o <<"_">>))
                 => formatted_name = arg_file_name
           /\ StartsWith(arg_file_name, repos[3] \o <<"_">>)
                 => formatted_name = repos[3] \o <<"/">> \o RemainderAfter(repos[3])

\* C15 witness: a tritonbench name whose remainder holds two "test_" came back
\* with the one slash after the repository name
C15_Witness ==
    /\ pc = "formatted"
    /\ StartsWith(arg_file_name, repos[3] \o <<"_">>)
    /\ Cardinality(Occurrences(RemainderAfter(repos[3]))) >= 2
    /\ formatted_name = repos[3] \o <<"/">> \o RemainderAfter(repos[3])
    /\ Cardinality({i \in DOMAIN formatted_name : formatted_name[i] = "/"}) = 1

\* a string with every "/" replaced by "_"
SlashesToSeparators(str) == [i \in DOMAIN str |-> IF str[i] = "/" THEN "_" ELSE str[i]]

\* C24 (as claimed): the result holds every character of the argument: with
\* each "/" of the result replaced by "_" it is the argument again (the
\* arguments hold no "/" of their own), also when the character before the
\* last "test_" is not "_".
C24_NoCharacterLost ==
    pc = "formatted" => SlashesToSeparators(formatted_name) = arg_file_name

NoDirectory == [exists |-> FALSE, entries |-> {}]

\* entries besides those of LogFileUniverse: a log file in a subdirectory and a
\* file that is no log file
OtherEntries ==
    { [parent |-> "sub", name |-> <<"1", "_">> \o BaseNameA \o SuffixLog],
      [parent |-> "", name |-> <<"1", "_", "a", ".", "t", "x", "t">>] }

\* the directories of the model: absent, or holding at most MaxFiles entries
Directories ==
    {NoDirectory} \cup
    {[exists |-> TRUE, entries |-> E] :
        E \in {X \in SUBSET (LogFileUniverse \cup OtherEntries) : Cardinality(X) <= MaxFiles}}

\* the two candidate paths, relative to KERNEL_TIME_DIR
possible_paths == << <<"config_name">>, <<"ablation_studies", "config_name">> >>

\* "for path in possible_paths: if path.exists(): config_path = path; break"
ResolvePath_FirstWithEntries(direct, nested) ==
    IF direct.exists /\ direct.entries # {} THEN possible_paths[1]
    ELSE IF nested.exists THEN possible_paths[2]
    ELSE None

ResolvePath(direct, nested) ==
    IF direct.exists THEN possible_paths[1]
    ELSE IF nested.exists THEN possible_paths[2]
    ELSE None

\* a name the pattern "*.log" matches
GlobMatchesLog(name) ==
    /\ Len(name) >= Len(SuffixLog)
    /\ SubSeq(name, Len(name) - Len(SuffixLog) + 1, Len(name)) = SuffixLog

\* set(log_files): run.log if it exists, glob('*.log') and glob('**/*.log')
LogFileSet(dir) ==
    {f \in dir.entries : f.parent = "" /\ f.name = <<"r", "u", "n">> \o SuffixLog}
    \cup {f \in dir.entries : f.parent = "" /\ GlobMatchesLog(f.name)}
    \cup {f \in dir.entries : GlobMatchesLog(f.name)}

\* list(set(...)) followed by sort(key=extract_number): every enumeration of the
\* set in key order; files with equal keys are in either order
SortedLists(S) ==
    { fs \in [1..Cardinality(S) -> S] :
        /\ \A i, j \in 1..Cardinality(S) : i # j => fs[i] # fs[j]
        /\ \A i, j \in 1..Cardinality(S) :
              i < j => KeyLE(extract_number(fs[i]), extract_number(fs[j])) }

InitLocate ==
    /\ AnalyzeIdle
    /\ RunIdle
    /\ arg_file_name = <<>>
    /\ formatted_name = <<>>
    /\ config_path = None
    /\ tests = <<>>
    /\ registry = EmptyDict
    /\ WrapperIdle
    /\ direct_dir \in Directories
    /\ nested_dir \in Directories
    /\ pc = "find"

\* log_files = find_log_files(config_name)
FindLogFiles ==
    /\ pc = "find"
    /\ config_path' = ResolvePath(direct_dir, nested_dir)
    /\ IF config_path' = None
       THEN log_files' = <<>>
       ELSE log_files' \in SortedLists(LogFileSet(IF config_path' = possible_paths[1]
                                                  THEN direct_dir ELSE nested_dir))
    /\ pc' = "found"
    /\ UNCHANGED <<file_pos, file_number, base_name, lines, lines_read, test_name,
                   test_number, results, parse_exception, file_totals, returned>>
    /\ UNCHANGED <<run_vars, format_vars, direct_dir, nested_dir, registry_vars,
                   wrapper_vars>>

NextLocate == FindLogFiles

SpecLocate == InitLocate /\ [][NextLocate]_vars

\* ------------------------------------------------------------ properties of SpecLocate
\* the entries of a directory, at any depth, whose name ends in ".log"
LogEntries(dir) ==
    {f \in dir.entries :
        /\ Len(f.name) >= 4
        /\ f.name[Len(f.name) - 3] = "." /\ f.name[Len(f.name) - 2] = "l"
        /\ f.name[Len(f.name) - 1] = "o" /\ f.name[Len(f.name)] = "g"}

Located == {log_files[i] : i \in DOMAIN log_files}

\* C18: find_log_files searches the direct directory when it exists, whatever
\* the nested one holds; the nested one only when the direct one does not
\* exist; and returns the empty list when neither exists.
C18_FirstExistingDirectoryOnly ==
    pc = "found"
        => IF direct_dir.exists
           THEN config_path = possible_paths[1] /\ Located = LogEntries(direct_dir)
           ELSE IF nested_dir.exists
           THEN config_path = possible_paths[2] /\ Located = LogEntries(nested_dir)
           ELSE config_path = None /\ log_files = <<>>

\* C18 witness: the direct directory exists without a log file, the nested one
\* holds log files, and the result is the empty list
C18_Witness ==
    /\ pc = "found"
    /\ direct_dir.exists
    /\ direct_dir.entries # {}
    /\ LogEntries(direct_dir) = {}
    /\ nested_dir.exists
    /\ LogEntries(nested_dir) # {}
    /\ log_files = <<>>


\* ------------------------------------------------------------ build_registry
\* (src/utils/test_id_registry.py)
\* tests in the list discover_all_tests returns
MaxTests == 3

REPO_ORDER == <<"liger_kernel", "tritonbench", "flag_gems">>

\* a test name is the sequence of its repository name and the characters after
\* it; the code point that orders each piece (a repository name by its first
\* letter: the three names differ there)
CodePoint(c) ==
    CASE c = "/" -> 47 [] c = "_" -> 95 [] c = "a" -> 97 [] c = "b" -> 98
      [] c = "flag_gems" -> 102 [] c = "liger_kernel" -> 108 [] c = "tritonbench" -> 116

\* a < b for two str
RECURSIVE StrLess(_, _)
StrLess(a, b) ==
    IF b = <<>> THEN FALSE
    ELSE IF a = <<>> THEN TRUE
    ELSE IF a[1] = b[1] THEN StrLess(Tail(a), Tail(b))
    ELSE CodePoint(a[1]) < CodePoint(b[1])

\* {"repository": repo_name, "test_name": f"{repo_name}/{...}"}
TestInfo(repo_name, rest) ==
    [repository |-> repo_name, test_name |-> <<repo_name, "/">> \o rest]

\* the tests discovery can find: "<repo>/a", "<repo>/a_", and for the
\* repositories with test functions "<repo>/a/b"
TestUniverse ==
    {TestInfo(REPO_ORDER[r], rest) : r \in DOMAIN REPO_ORDER, rest \in {<<"a">>, <<"a", "_">>}}
    \cup {TestInfo(REPO_ORDER[r], <<"a", "/", "b">>) : r \in {1, 3}}

\* REPO_ORDER.index(repository), 999 for a repository that is not in it
RepoIndex(repository) ==
    IF \E i \in DOMAIN REPO_ORDER : REPO_ORDER[i] = repository
    THEN (CHOOSE i \in DOMAIN REPO_ORDER : REPO_ORDER[i] = repository) - 1
    ELSE 999

\* what discover_all_tests can return: at most MaxTests tests, the same test
\* possibly more than once, repository by repository in the order of REPO_ORDER
DiscoveredLists ==
    UNION { { ts \in [1..n -> TestUniverse] :
                \A i, j \in 1..n :
                   i < j => RepoIndex(ts[i].repository) <= RepoIndex(ts[j].repository) }
            : n \in 0..MaxTests }

sort_key_NameOnly(t) == <<0, t.test_name>>

sort_key(t) == <<RepoIndex(t.repository), t.test_name>>

\* k1 < k2 for two keys (repo_idx, test_name)
KeyLess(k1, k2) == k1[1] < k2[1] \/ (k1[1] = k2[1] /\ StrLess(k1[2], k2[2]))

\* tests.sort(key=sort_key): a stable sort, as an insertion sort from the left
RECURSIVE SortTests(_)
SortTests(ts) ==
    IF ts = <<>> THEN <<>>
    ELSE LET head == SortTests(SubSeq(ts, 1, Len(ts) - 1))
             t == ts[Len(ts)]
             before == {i \in DOMAIN head : ~KeyLess(sort_key(t), sort_key(head[i]))}
             n == Cardinality(before)
         IN SubSeq(head, 1, n) \o <<t>> \o SubSeq(head, n + 1, Len(head))

\* "for idx, test in enumerate(tests, start=1): registry[test['test_name']] = idx"
RECURSIVE AssignIds(_, _, _)
AssignIds(ts, idx, reg) ==
    IF ts = <<>> THEN reg
    ELSE AssignIds(Tail(ts), idx + 1, DictSet(reg, ts[1].test_name, idx))

\* get_max_test_id: max(registry.values()) if registry else 0
get_max_test_id(reg) ==
    IF DOMAIN reg = {} THEN 0
    ELSE CHOOSE m \in {reg[n] : n \in DOMAIN reg} : \A n \in DOMAIN reg : reg[n] <= m

InitRegistry ==
    /\ AnalyzeIdle
    /\ RunIdle
    /\ arg_file_name = <<>>
    /\ formatted_name = <<>>
    /\ direct_dir = NoDirectory
    /\ nested_dir = NoDirectory
    /\ config_path = None
    /\ registry = EmptyDict
    /\ WrapperIdle
    /\ tests \in DiscoveredLists
    /\ pc = "build"

\* build_registry after tests = discover_all_tests(project_root)
BuildRegistry ==
    /\ pc = "build"
    /\ tests' = SortTests(tests)
    /\ registry' = AssignIds(tests', 1, EmptyDict)
    /\ pc' = "built"
    /\ UNCHANGED <<analyze_vars, run_vars, format_vars, locate_vars, wrapper_vars>>

NextRegistry == BuildRegistry

SpecRegistry == InitRegistry /\ [][NextRegistry]_vars

\* ------------------------------------------------------------ properties of SpecRegistry
\* position of the repository of a test name in the order liger_kernel,
\* tritonbench, flag_gems
RepositoryPosition(name) ==
    CASE name[1] = "liger_kernel" -> 1
      [] name[1] = "tritonbench" -> 2
      [] name[1] = "flag_gems" -> 3

\* C19: after build_registry every discovered test name has an ID, every ID is
\* at least 1, distinct names have distinct IDs, and a name that comes before
\* another by (repository position, test name) has the smaller ID.
C19_IdsFollowRepositoryThenName ==
    pc = "built"
        => /\ DOMAIN registry = {tests[i].test_name : i \in DOMAIN tests}
           /\ \A n \in DOMAIN registry : registry[n] >= 1
           /\ \A n, m \in DOMAIN registry : n # m => registry[n] # registry[m]
           /\ \A n, m \in DOMAIN registry :
                 (\/ RepositoryPosition(n) < RepositoryPosition(m)
                  \/ RepositoryPosition(n) = RepositoryPosition(m) /\ StrLess(n, m))
                    => registry[n] < registry[m]

\* C19 witness: a registry over the three repositories, in which the flag_gems
\* name (first by name) has the largest ID and the liger_kernel name has ID 1
C19_Witness ==
    /\ pc = "built"
    /\ Cardinality(DOMAIN registry) = 3
    /\ \E n, m, k \in DOMAIN registry :
          /\ n[1] = "liger_kernel" /\ m[1] = "tritonbench" /\ k[1] = "flag_gems"
          /\ registry[n] = 1
          /\ registry[m] = 2
          /\ registry[k] = 3

\* C28 (as claimed): after build_registry the IDs of the registry are exactly
\* 1..N, N being the number of names in it, and get_max_test_id() is N, also
\* when the discovered list holds a name more than once.
C28_IdsAreOneToN ==
    pc = "built"
        => /\ {registry[n] : n \in DOMAIN registry} = 1..Cardinality(DOMAIN registry)
           /\ get_max_test_id(registry) = Cardinality(DOMAIN registry)

\* ------------------------------------------------------------ main of src/test_asan_wrapper.py
\* chunks an OS pipe holds before a write to it blocks
PipeCapacity == 2
\* chunks the child writes before it exits
MaxOutput == 3

\* a chunk of output of the child: plain stdout, stdout holding
\* "Begin function __asan_report", plain stderr, stderr holding
\* "heap-buffer-overflow"
StdoutChunks == {"out", "asan_report"}

StderrChunks == {"err", "heap_overflow"}

\* what "python test_asan.py" can write: any chunks in any order
ChildScripts == UNION {[1..n -> StdoutChunks \cup StderrChunks] : n \in 0..MaxOutput}

InitWrapper ==
    /\ AnalyzeIdle
    /\ RunIdle
    /\ arg_file_name = <<>>
    /\ formatted_name = <<>>
    /\ direct_dir = NoDirectory
    /\ nested_dir = NoDirectory
    /\ config_path = None
    /\ tests = <<>>
    /\ registry = EmptyDict
    /\ child_script \in ChildScripts
    /\ child_pos = 1
    /\ child_state = "none"
    /\ out_stdout = <<>>
    /\ out_stderr = <<>>
    /\ stdout = <<>>
    /\ stderr = <<>>
    /\ wrapper_exit_status = Unbound
    /\ pc = "wrapper"

\* "if not is_hip(): ... return"; otherwise the environment is set
IsHip ==
    /\ pc = "wrapper"
    /\ pc' \in {"skipped", "popen"}
    /\ UNCHANGED <<analyze_vars, run_vars, format_vars, locate_vars, registry_vars,
                   wrapper_vars>>

\* out = subprocess.Popen([...], stderr=PIPE, stdout=PIPE): the child runs
Popen ==
    /\ pc = "popen"
    /\ child_state' = "running"
    /\ pc' = "read_stdout"
    /\ UNCHANGED <<analyze_vars, run_vars, format_vars, locate_vars, registry_vars>>
    /\ UNCHANGED <<child_script, child_pos, out_stdout, out_stderr, stdout, stderr,
                   wrapper_exit_status>>

\* the child writes its next chunk to stdout; the write blocks while the pipe is full
ChildWriteStdout ==
    /\ child_state = "running"
    /\ child_pos <= Len(child_script)
    /\ child_script[child_pos] \in StdoutChunks
    /\ Len(out_stdout) < PipeCapacity
    /\ out_stdout' = Append(out_stdout, child_script[child_pos])
    /\ child_pos' = child_pos + 1
    /\ UNCHANGED <<analyze_vars, run_vars, format_vars, locate_vars, registry_vars, pc>>
    /\ UNCHANGED <<child_script, child_state, out_stderr, stdout, stderr,
                   wrapper_exit_status>>

\* the child writes its next chunk to stderr; the write blocks while the pipe is full
ChildWriteStderr ==
    /\ child_state = "running"
    /\ child_pos <= Len(child_script)
    /\ child_script[child_pos] \in StderrChunks
    /\ Len(out_stderr) < PipeCapacity
    /\ out_stderr' = Append(out_stderr, child_script[child_pos])
    /\ child_pos' = child_pos + 1
    /\ UNCHANGED <<analyze_vars, run_vars, format_vars, locate_vars, registry_vars, pc>>
    /\ UNCHANGED <<child_script, child_state, out_stdout, stdout, stderr,
                   wrapper_exit_status>>

\* the child has written everything and exits, which closes its ends of both pipes
ChildExit ==
    /\ child_state = "running"
    /\ child_pos > Len(child_script)
    /\ child_state' = "exited"
    /\ UNCHANGED <<analyze_vars, run_vars, format_vars, locate_vars, registry_vars, pc>>
    /\ UNCHANGED <<child_script, child_pos, out_stdout, out_stderr, stdout, stderr,
                   wrapper_exit_status>>

\* out.stdout.read(): takes what the pipe holds and goes on reading
ReadStdout ==
    /\ pc = "read_stdout"
    /\ out_stdout # <<>>
    /\ stdout' = stdout \o out_stdout
    /\ out_stdout' = <<>>
    /\ UNCHANGED <<analyze_vars, run_vars, format_vars, locate_vars, registry_vars, pc>>
    /\ UNCHANGED <<child_script, child_pos, child_state, out_stderr, stderr,
                   wrapper_exit_status>>

\* out.stdout.read() returns: the pipe is empty and its write end is closed
StdoutEof ==
    /\ pc = "read_stdout"
    /\ out_stdout = <<>>
    /\ child_state = "exited"
    /\ pc' = "read_stderr"
    /\ UNCHANGED <<analyze_vars, run_vars, format_vars, locate_vars, registry_vars,
                   wrapper_vars>>

\* out.stderr.read(): takes what the pipe holds and goes on reading
ReadStderr ==
    /\ pc = "read_stderr"
    /\ out_stderr # <<>>
    /\ stderr' = stderr \o out_stderr
    /\ out_stderr' = <<>>
    /\ UNCHANGED <<analyze_vars, run_vars, format_vars, locate_vars, registry_vars, pc>>
    /\ UNCHANGED <<child_script, child_pos, child_state, out_stdout, stdout,
                   wrapper_exit_status>>

\* out.stderr.read() returns: the pipe is empty and its write end is closed
StderrEof ==
    /\ pc = "read_stderr"
    /\ out_stderr = <<>>
    /\ child_state = "exited"
    /\ pc' = "asan_check"
    /\ UNCHANGED <<analyze_vars, run_vars, format_vars, locate_vars, registry_vars,
                   wrapper_vars>>

\* has_asan_report, has_heap_overflow and sys.exit(0) or sys.exit(1)
AsanCheck ==
    /\ pc = "asan_check"
    /\ LET has_asan_report == \E i \in DOMAIN stdout : stdout[i] = "asan_report"
           has_heap_overflow == \E i \in DOMAIN stderr : stderr[i] = "heap_overflow"
       IN wrapper_exit_status' = IF has_asan_report /\ has_heap_overflow THEN 0 ELSE 1
    /\ pc' = "exited"
    /\ UNCHANGED <<analyze_vars, run_vars, format_vars, locate_vars, registry_vars>>
    /\ UNCHANGED <<child_script, child_pos, child_state, out_stdout, out_stderr,
                   stdout, stderr>>

NextWrapper ==
    \/ IsHip
    \/ Popen
    \/ ChildWriteStdout
    \/ ChildWriteStderr
    \/ ChildExit
    \/ ReadStdout
    \/ StdoutEof
    \/ ReadStderr
    \/ StderrEof
    \/ AsanCheck

SpecWrapper == InitWrapper /\ [][NextWrapper]_vars

\* ------------------------------------------------------------ properties of SpecWrapper
\* the child is in a write to stderr that cannot proceed: the pipe is full
ChildBlockedOnStderr ==
    /\ child_state = "running"
    /\ child_pos <= Len(child_script)
    /\ child_script[child_pos] \in StderrChunks
    /\ Len(out_stderr) = PipeCapacity

\* main is in out.stdout.read() with nothing to take and no end-of-file
WrapperWaitsOnStdout ==
    /\ pc = "read_stdout"
    /\ out_stdout = <<>>
    /\ child_state # "exited"

\* C29 (as claimed): on a HIP backend main always gets to its exit: the wrapper
\* is never waiting in out.stdout.read() while the child is blocked in a write
\* to a full stderr pipe, and whenever neither process can take a step main
\* has exited (or has skipped the test on another backend).
C29_WrapperAlwaysTerminates ==
    /\ ~(WrapperWaitsOnStdout /\ ChildBlockedOnStderr)
    /\ (~ENABLED NextWrapper) => pc \in {"exited", "skipped"}

====
